---- MODULE Spec2Model ----
(***************************************************************************)
(* Model of `mesheryctl perf apply` (mesheryctl/internal/cli/root/perf/    *)
(* apply.go): one invocation of applyCmd.RunE together with                *)
(* createPerformanceProfile.                                               *)
(*                                                                         *)
(* Strings whose characters the code inspects (durations, numbers, the     *)
(* profile name and the positional arguments) are sequences of one-        *)
(* character strings, <<>> being the empty string; every other string is   *)
(* an opaque TLA+ string, "" being the empty string.                       *)
(***************************************************************************)
EXTENDS Integers, Sequences, FiniteSets, TLC

VARIABLES
    args,               \* positional arguments of the invocation
    silent,             \* utils.SilentFlag (-y)
    fileData,           \* what lies at filePath (meaningless when filePath = "")
    profileName, testURL, testName, testMesh, qps, concurrentRequests,
    testDuration, loadGenerator, filePath, profileID, req,
    profiles,           \* result of fetchPerformanceProfiles
    index,              \* index of the profile in use (0-based, as in the code)
    flags,              \* the flag values as parsed from the command line
    prompts,            \* the interactive prompts shown and their answers
    pc,                 \* position inside RunE
    err,                \* "running", "nil" (success), "panic", or an error kind
    calls,              \* the network requests sent so far, in order
    replies             \* replies[i] is what came back for calls[i]

vars == << args, silent, fileData, profileName, testURL, testName, testMesh, qps,
           concurrentRequests, testDuration, loadGenerator, filePath, profileID,
           req, profiles, index, flags, prompts, pc, err, calls, replies >>

(***************************************************************************)
(* Bounds                                                                  *)
(***************************************************************************)
MaxProfiles == 2

(***************************************************************************)
(* Character-level string helpers (Go: strconv, strings)                   *)
(***************************************************************************)
Digits == << "0", "1", "2", "3", "4", "5", "6", "7", "8", "9" >>

DigitSet == { Digits[i] : i \in 1..10 }

DigitVal(c) == (CHOOSE i \in 1..10 : Digits[i] = c) - 1

RECURSIVE NatToStr(_)
NatToStr(n) == IF n < 10 THEN << Digits[n + 1] >>
               ELSE NatToStr(n \div 10) \o << Digits[(n % 10) + 1] >>

\* strconv.Itoa / strconv.FormatInt(_, 10)
Itoa(n) == IF n < 0 THEN << "-" >> \o NatToStr(0 - n) ELSE NatToStr(n)

RECURSIVE DigitsToNat(_)
DigitsToNat(s) == IF s = << >> THEN 0
                  ELSE 10 * DigitsToNat(SubSeq(s, 1, Len(s) - 1)) + DigitVal(s[Len(s)])

AllDigits(s) == Len(s) > 0 /\ \A i \in 1..Len(s) : s[i] \in DigitSet

\* strconv.Atoi: an optional sign followed by at least one decimal digit
Atoi(s) ==
    LET signed == Len(s) > 0 /\ s[1] \in { "+", "-" }
        body   == IF signed THEN Tail(s) ELSE s
    IN  IF AllDigits(body)
        THEN [ok |-> TRUE,
              val |-> IF signed /\ s[1] = "-" THEN 0 - DigitsToNat(body)
                      ELSE DigitsToNat(body)]
        ELSE [ok |-> FALSE, val |-> 0]

RECURSIVE ReplaceSpaces(_)
\* strings.ReplaceAll(arg, " ", "%20")
ReplaceSpaces(s) ==
    IF s = << >> THEN << >>
    ELSE (IF Head(s) = " " THEN << "%", "2", "0" >> ELSE << Head(s) >>)
         \o ReplaceSpaces(Tail(s))

RECURSIVE JoinArgs(_)
\* strings.Join(args, "%20") after the ReplaceAll loop
JoinArgs(as) ==
    IF as = << >> THEN << >>
    ELSE IF Len(as) = 1 THEN ReplaceSpaces(as[1])
    ELSE ReplaceSpaces(as[1]) \o << "%", "2", "0" >> \o JoinArgs(Tail(as))

(***************************************************************************)
(* External collaborators                                                  *)
(***************************************************************************)
\* The URLs of the model that govalidator.IsURL accepts; "" and "not a url"
\* are rejected.
ValidURLs == { "https://flag.example.com", "https://file.example.com",
               "https://profile.example.com" }

\* govalidator.IsURL(testURL)
IsURL(u) == u \in ValidURLs

\* SMP.ServiceMesh_Type_name[int32(t)]: a map lookup, "" for an unknown key
MeshTypeName(t) == CASE t = 0 -> "INVALID_MESH"
                     [] t = 3 -> "ISTIO"
                     [] t = 5 -> "LINKERD"
                     [] OTHER -> ""

\* utils.ContentTypeIsHTML(resp)
ContentTypeIsHTML(resp) == resp.contentType \in { "text/html", "text/html; charset=utf-8" }

\* utils.StringWithCharset(8): some 8-character name
RandomNames == { "qwertyui", "asdfghjk" }

(***************************************************************************)
(* Inputs of one invocation                                                *)
(***************************************************************************)
FlagTestName == { "", "flag-test" }
FlagURL      == { "", "https://flag.example.com", "not a url" }
FlagMesh     == { "", "istio" }
FlagQPS      == { << >>, << "9" >>, << "x" >> }
FlagConc     == { << >>, << "4" >> }
FlagDuration == { << >>, << "1", "0", "s" >>, << "x", "s" >> }
FlagLoadGen  == { "", "wrk2" }

ArgLists == { << >>,
              << << >> >>,
              << << "p" >>, << "a", " ", "b" >> >> }

\* models.PerformanceTestConfigFile as decoded from the YAML document
FullClient == [endpointUrls |-> << "https://file.example.com", "https://second.example.com" >>,
               rps |-> 30, connections |-> 2, loadGenerator |-> "fortio"]

BlankClient == [endpointUrls |-> << "" >>, rps |-> 0, connections |-> 0,
                loadGenerator |-> ""]

NoEndpointClient == [endpointUrls |-> << >>, rps |-> 5, connections |-> 1,
                     loadGenerator |-> "wrk2"]

FileOf(hasConfig, hasMesh, name, duration, meshType, clients) ==
    [readable |-> TRUE, decodes |-> TRUE, hasConfig |-> hasConfig,
     hasMesh |-> hasMesh, name |-> name, duration |-> duration,
     meshType |-> meshType, clients |-> clients]

FullFile == FileOf(TRUE, TRUE, "file-test", << "2", "m" >>, 3, << FullClient, BlankClient >>)

BlankFile == FileOf(TRUE, TRUE, "", << >>, 99, << BlankClient >>)

FileImages ==
    { [FullFile EXCEPT !.readable = FALSE],
      [FullFile EXCEPT !.decodes = FALSE],
      [FullFile EXCEPT !.hasConfig = FALSE],
      [FullFile EXCEPT !.hasMesh = FALSE],
      [FullFile EXCEPT !.clients = << >>],
      [FullFile EXCEPT !.clients = << NoEndpointClient >>],
      FullFile,
      BlankFile }

\* models.PerformanceProfile as stored in the registry
ProfileA == [id |-> "id-a", name |-> << "a", " ", "b" >>,
             endpoints |-> << "https://profile.example.com", "https://other.example.com" >>,
             loadGenerators |-> << "wrk2", "fortio" >>,
             concurrentRequest |-> 3, qps |-> 12,
             duration |-> << "5", "m" >>, serviceMesh |-> "linkerd"]

ProfileB == [id |-> "id-b", name |-> << "p" >>,
             endpoints |-> << "not a url" >>,
             loadGenerators |-> << "fortio" >>,
             concurrentRequest |-> 0, qps |-> 0,
             duration |-> << >>, serviceMesh |-> ""]

ProfileC == [id |-> "id-c", name |-> << "p", "q" >>,
             endpoints |-> << >>,
             loadGenerators |-> << >>,
             concurrentRequest |-> 1, qps |-> 7,
             duration |-> << "s" >>, serviceMesh |-> "None"]

StoredProfiles == { ProfileA, ProfileB, ProfileC }

\* the registry holds every profile once: a list names no profile twice
ProfileLists ==
    { ps \in UNION { [1..n -> StoredProfiles] : n \in 0..MaxProfiles } :
         \A i, j \in 1..Len(ps) : ps[i] = ps[j] => i = j }

NilRequest == [kind |-> "nil"]

\* client.Do returned an error instead of a response
TransportError == [kind |-> "error"]

Init ==
    /\ args \in ArgLists
    /\ silent \in BOOLEAN
    /\ filePath \in { "", "perf-config.yaml" }
    /\ fileData \in IF filePath = "" THEN { BlankFile } ELSE FileImages
    /\ testName \in FlagTestName
    /\ testURL \in FlagURL
    /\ testMesh \in FlagMesh
    /\ qps \in FlagQPS
    /\ concurrentRequests \in FlagConc
    /\ testDuration \in FlagDuration
    /\ loadGenerator \in FlagLoadGen
    /\ flags = [name |-> testName, url |-> testURL, mesh |-> testMesh, qps |-> qps,
                 concurrentRequests |-> concurrentRequests,
                 duration |-> testDuration, loadGenerator |-> loadGenerator]
    /\ prompts = << >>
    /\ profileName = << >>
    /\ profileID = ""
    /\ req = NilRequest
    /\ profiles = << >>
    /\ index = 0
    /\ pc = "config"
    /\ err = "running"
    /\ calls = << >>
    /\ replies = << >>

(***************************************************************************)
(* RunE, step by step                                                      *)
(***************************************************************************)
inputs == << args, silent, fileData, filePath, flags >>

settings == << testURL, testName, testMesh, qps, concurrentRequests, testDuration,
               loadGenerator >>

\* `return <error>` from RunE
Return(e) == pc' = "done" /\ err' = e

\* a Go runtime panic: x[0] of an empty slice
Panic == pc' = "done" /\ err' = "panic: index out of range [0] with length 0"

\* a Go runtime panic: testDuration[durLen-1] of an empty string
PanicDuration == pc' = "done" /\ err' = "panic: index out of range [-1]"

Goto(l) == pc' = l /\ err' = err

\* config.GetMesheryCtl(viper.GetViper())
GetMesheryCtl ==
    /\ pc = "config"
    /\ \E ok \in BOOLEAN :
          IF ok THEN Goto("file") ELSE Return("ErrMesheryConfig")
    /\ UNCHANGED << inputs, settings, profileName, profileID, req, profiles, index,
                    prompts, calls, replies >>

\* KeepFlag with the precedence reversed: the file's value wins when it has one
KeepFlag_FileWins(cur, empty, fromFile) == IF fromFile = empty THEN cur ELSE fromFile

\* "Override values from configuration if passed on as flags": the value a
\* setting has after the import, given its current value and the file's
KeepFlag(cur, empty, fromFile) == IF cur = empty THEN fromFile ELSE cur

\* the import of the SMP test configuration file
ImportFile ==
    /\ pc = "file"
    /\ UNCHANGED << inputs, profileName, profileID, req, profiles, index, prompts,
                    calls, replies >>
    /\ IF filePath = ""
       THEN Goto("name") /\ UNCHANGED settings
       ELSE IF ~fileData.readable
       THEN Return("ErrReadFilepath") /\ UNCHANGED settings
       ELSE IF ~fileData.decodes
       THEN Return("ErrFailUnmarshalFile") /\ UNCHANGED settings
       ELSE IF ~fileData.hasConfig \/ ~fileData.hasMesh
       THEN Return("ErrInvalidTestConfigFile") /\ UNCHANGED settings
       ELSE IF fileData.clients = << >>
       THEN Panic /\ UNCHANGED settings
       ELSE LET testClient == fileData.clients[1] IN
            /\ testName' = KeepFlag(testName, "", fileData.name)
            /\ IF testURL = "" /\ testClient.endpointUrls = << >>
               THEN /\ Panic
                    /\ UNCHANGED << testURL, testMesh, qps, concurrentRequests,
                                    testDuration, loadGenerator >>
               ELSE /\ Goto("name")
                    /\ testURL' = IF testURL = "" THEN testClient.endpointUrls[1]
                                  ELSE testURL
                    /\ testMesh' = KeepFlag(testMesh, "", MeshTypeName(fileData.meshType))
                    /\ qps' = KeepFlag(qps, << >>, Itoa(testClient.rps))
                    /\ concurrentRequests' =
                           KeepFlag(concurrentRequests, << >>, Itoa(testClient.connections))
                    /\ testDuration' = KeepFlag(testDuration, << >>, fileData.duration)
                    /\ loadGenerator' = KeepFlag(loadGenerator, "", testClient.loadGenerator)

\* the random test name, the profile-name check and the joining of the arguments
NameAndArgs ==
    /\ pc = "name"
    /\ \E r \in RandomNames : testName' = IF testName = "" THEN r ELSE testName
    /\ IF Len(args) = 0
       THEN Return("ErrNoProfileName") /\ UNCHANGED profileName
       ELSE Goto("fetch") /\ profileName' = JoinArgs(args)
    /\ UNCHANGED << inputs, testURL, testMesh, qps, concurrentRequests, testDuration,
                    loadGenerator, profileID, req, profiles, index, prompts, calls, replies >>

\* fetchPerformanceProfiles(baseURL, profileName, pageSize, pageNumber-1)
FetchProfiles ==
    /\ pc = "fetch"
    /\ calls' = Append(calls, [kind |-> "list", name |-> profileName])
    /\ \/ /\ Return("ErrFetchProfiles")
          /\ replies' = Append(replies, TransportError)
          /\ UNCHANGED profiles
       \/ \E ps \in ProfileLists :
             /\ Goto("resolve")
             /\ replies' = Append(replies, [kind |-> "profiles", count |-> Len(ps)])
             /\ profiles' = ps
    /\ UNCHANGED << inputs, settings, profileName, profileID, req, index, prompts >>

\* Confirmed with the answer ignored: the creation always goes ahead
Confirmed_Always(silentFlag, answer) == TRUE

\* "skip asking confirmation if -y flag used": userResponse, given the answer
\* the user would type
Confirmed(silentFlag, answer) == IF silentFlag THEN TRUE ELSE answer

\* no profile matches: confirm the creation of a new one, or give up
ResolveNone ==
    /\ pc = "resolve"
    /\ Len(profiles) = 0
    /\ \E answer \in BOOLEAN :
          /\ prompts' = IF silent THEN prompts
                        ELSE Append(prompts, [prompt |-> "confirm", answer |-> answer])
          /\ IF Confirmed(silent, answer)
             THEN Goto("create")
             ELSE Return("ErrNoProfileFound")
    /\ UNCHANGED << inputs, settings, profileName, profileID, req, profiles, index, calls, replies >>

\* Default with the default put over a value that was supplied
Default_Overwrites(cur, empty, dflt) == dflt

\* createPerformanceProfile: "if x == "" { x = <default> }"
Default(cur, empty, dflt) == IF cur = empty THEN dflt ELSE cur

\* the body of the profile-creation request
CreationValues(convReq, convQPS) ==
    [concurrent_request |-> convReq,
     duration           |-> testDuration',
     endpoints          |-> << testURL >>,
     load_generators    |-> << loadGenerator' >>,
     name               |-> profileName,
     qps                |-> convQPS,
     service_mesh       |-> testMesh',
     request_body       |-> "",
     request_cookies    |-> "",
     request_headers    |-> "",
     content_type       |-> ""]

\* the checks of createPerformanceProfile on the profile name and the test URL
CreationCheck == IF profileName = << >> THEN "ErrNoProfileName"
                 ELSE IF testURL = "" THEN "ErrNoTestURL"
                 ELSE IF ~IsURL(testURL) THEN "ErrNotValidURL"
                 ELSE "ok"

\* createPerformanceProfile up to the construction of the POST request
CreateBuild ==
    /\ pc = "create"
    /\ UNCHANGED << inputs, testURL, testName, profileName, profileID, profiles, index,
                    prompts, calls, replies >>
    /\ IF CreationCheck # "ok"
       THEN /\ Return(CreationCheck)
            /\ UNCHANGED << testMesh, qps, concurrentRequests, testDuration,
                            loadGenerator, req >>
       ELSE /\ testMesh' = Default(testMesh, "", "None")
            /\ qps' = Default(qps, << >>, << "0" >>)
            /\ concurrentRequests' = Default(concurrentRequests, << >>, << "1" >>)
            /\ testDuration' = Default(testDuration, << >>, << "3", "0", "s" >>)
            /\ loadGenerator' = Default(loadGenerator, "", "fortio")
            /\ LET convReq == Atoi(concurrentRequests')
                   convQPS == Atoi(qps')
               IN  IF ~convReq.ok
                   THEN Return("failed to convert concurrent-request") /\ UNCHANGED req
                   ELSE IF ~convQPS.ok
                   THEN Return("failed to convert qps") /\ UNCHANGED req
                   ELSE \E built \in BOOLEAN :   \* utils.NewRequest
                           IF built
                           THEN /\ Goto("post")
                                /\ req' = [kind |-> "create",
                                           body |-> CreationValues(convReq.val, convQPS.val)]
                           ELSE Return("ErrNewRequest") /\ UNCHANGED req

\* what the registry may answer to the creation request
CreateResponses ==
    [kind : { "response" }, status : { 200, 404 }, readable : BOOLEAN,
     decodes : BOOLEAN, id : { "id-new" }, name : { << "n", "e", "w" >> }]

\* CreateStatusOK with the status check dropped
CreateStatusOK_Any(status) == TRUE

\* "if resp.StatusCode != 200 { return ErrFailReqStatus }"
CreateStatusOK(status) == status = 200

\* createPerformanceProfile from client.Do on, and RunE's use of its result
CreateSend ==
    /\ pc = "post"
    /\ calls' = Append(calls, req)
    /\ UNCHANGED << inputs, settings, req, profiles, index, prompts >>
    /\ \/ /\ Return("ErrFailRequest")
          /\ replies' = Append(replies, TransportError)
          /\ UNCHANGED << profileID, profileName >>
       \/ \E resp \in CreateResponses :
             /\ replies' = Append(replies, resp)
             /\ IF ~CreateStatusOK(resp.status)
                THEN Return("ErrFailReqStatus") /\ UNCHANGED << profileID, profileName >>
                ELSE IF ~resp.readable
                THEN Return("failed to read response body")
                     /\ UNCHANGED << profileID, profileName >>
                ELSE IF ~resp.decodes
                THEN Return("ErrFailUnmarshal") /\ UNCHANGED << profileID, profileName >>
                ELSE /\ Goto("url")
                     /\ profileID' = resp.id
                     /\ profileName' = resp.name

\* the answers of userPrompt("profile", ...): a valid index, or an error
PromptAnswers(ps) == { [ok |-> TRUE, index |-> i] : i \in 0..(Len(ps) - 1) }
                     \cup { [ok |-> FALSE, index |-> -1] }

\* ProfileAt with the selection ignored: always the first profile
ProfileAt_First(ps, i) == ps[1]

\* profiles[index]
ProfileAt(ps, i) == ps[i + 1]

\* PullFromProfile with the condition inverted: pull only when a file is given
PullFromProfile_Inverted(path) == path # ""

\* "pull test configuration from the profile only if a test configuration is
\* not provided"
PullFromProfile(path) == path = ""

\* one or more profiles match: pick one and take over its values
ResolveMatch ==
    /\ pc = "resolve"
    /\ Len(profiles) > 0
    /\ UNCHANGED << inputs, testName, req, profiles, calls, replies >>
    /\ \E ans \in IF Len(profiles) = 1 THEN { [ok |-> TRUE, index |-> 0] }
                  ELSE PromptAnswers(profiles) :
          /\ prompts' = IF Len(profiles) = 1 THEN prompts
                        ELSE Append(prompts, [prompt |-> "index", answer |-> ans])
          /\ IF ~ans.ok
             THEN /\ Return("ErrPrompt")
                  /\ UNCHANGED << testURL, testMesh, qps, concurrentRequests, testDuration,
                                  loadGenerator, profileName, profileID, index >>
             ELSE LET p == ProfileAt(profiles, ans.index) IN
                  /\ index' = ans.index
                  /\ profileID' = p.id
                  /\ IF testURL = "" /\ p.endpoints = << >>
                     THEN /\ Panic
                          /\ UNCHANGED << testURL, testMesh, qps, concurrentRequests,
                                          testDuration, loadGenerator, profileName >>
                     ELSE /\ testURL' = IF testURL = "" THEN p.endpoints[1] ELSE testURL
                          /\ IF ~PullFromProfile(filePath)
                             THEN /\ Goto("url")
                                  /\ UNCHANGED << testMesh, qps, concurrentRequests,
                                                  testDuration, loadGenerator, profileName >>
                             ELSE /\ profileName' = p.name
                                  /\ IF p.loadGenerators = << >>
                                     THEN /\ Panic
                                          /\ UNCHANGED << testMesh, qps, concurrentRequests,
                                                          testDuration, loadGenerator >>
                                     ELSE /\ Goto("url")
                                          /\ loadGenerator' = p.loadGenerators[1]
                                          /\ concurrentRequests' = Itoa(p.concurrentRequest)
                                          /\ qps' = Itoa(p.qps)
                                          /\ testDuration' = p.duration
                                          /\ testMesh' = p.serviceMesh

\* URLCheck without the syntactic check
URLCheck_EmptyOnly(u) == IF u = "" THEN "ErrNoTestURL" ELSE "ok"

\* the checks of RunE on the resolved test URL
URLCheck(u) == IF u = "" THEN "ErrNoTestURL"
               ELSE IF ~IsURL(u) THEN "ErrNotValidURL"
               ELSE "ok"

CheckURL ==
    /\ pc = "url"
    /\ IF URLCheck(testURL) = "ok" THEN Goto("build") ELSE Return(URLCheck(testURL))
    /\ UNCHANGED << inputs, settings, profileName, profileID, req, profiles, index,
                    prompts, calls, replies >>

\* q.Add("dur", string(testDuration[durLen-1]))
DurationUnit(d) == << d[Len(d)] >>

\* q.Add("t", string(testDuration[:durLen-1]))
DurationMagnitude(d) == SubSeq(d, 1, Len(d) - 1)

\* the query of the test-run request; "mesh" only when testMesh is set
RunQuery ==
    LET q == [name          |-> testName,
              loadGenerator |-> loadGenerator,
              c             |-> concurrentRequests,
              url           |-> testURL,
              qps           |-> qps,
              dur           |-> DurationUnit(testDuration),
              t             |-> DurationMagnitude(testDuration)]
    IN  IF testMesh # "" THEN q @@ [mesh |-> testMesh] ELSE q

\* the construction of the test-run request
BuildRequest ==
    /\ pc = "build"
    /\ UNCHANGED << inputs, settings, profileName, profileID, profiles, index, prompts,
                    calls, replies >>
    /\ \E built \in BOOLEAN :   \* utils.NewRequest
          IF ~built
          THEN Return("ErrNewRequest") /\ UNCHANGED req
          ELSE IF Len(testDuration) = 0
          THEN PanicDuration /\ UNCHANGED req
          ELSE /\ Goto("exec")
               /\ req' = [kind |-> "run", id |-> profileID, query |-> RunQuery]

\* what the server may answer to the test-run request
RunResponses ==
    [kind : { "response" }, status : { 200, 500 },
     contentType : { "application/json", "text/html; charset=utf-8" },
     readable : BOOLEAN]

\* FailedTestRun with the content-type check dropped
FailedTestRun_StatusOnly(resp) == resp.status # 200

\* "if utils.ContentTypeIsHTML(resp) ... if resp.StatusCode != 200 ...":
\* whether the answer counts as a failed test run
FailedTestRun(resp) == ContentTypeIsHTML(resp) \/ resp.status # 200

\* client.Do(req) and the classification of the response
Execute ==
    /\ pc = "exec"
    /\ calls' = Append(calls, req)
    /\ \/ Return("ErrFailRequest") /\ replies' = Append(replies, TransportError)
       \/ \E resp \in RunResponses :
             /\ replies' = Append(replies, resp)
             /\ IF FailedTestRun(resp) THEN Return("ErrFailTestRun")
                ELSE IF ~resp.readable THEN Return("failed to read response body")
                ELSE Return("nil")
    /\ UNCHANGED << inputs, settings, profileName, profileID, req, profiles, index,
                    prompts >>

Next ==
    \/ GetMesheryCtl
    \/ ImportFile
    \/ NameAndArgs
    \/ FetchProfiles
    \/ ResolveNone
    \/ CreateBuild
    \/ CreateSend
    \/ ResolveMatch
    \/ CheckURL
    \/ BuildRequest
    \/ Execute

Spec == Init /\ [][Next]_vars

(***************************************************************************)
(* Vocabulary of the properties                                            *)
(***************************************************************************)
\* the requests of a kind that were built (sent or about to be sent)
Built(kind) == { r \in { req } \cup { calls[i] : i \in 1..Len(calls) } : r.kind = kind }

\* the requests of a kind that were sent
Sent(kind) == { r \in { calls[i] : i \in 1..Len(calls) } : r.kind = kind }

\* a test-configuration file was supplied and the import went through
FileImported == filePath # "" /\ pc \notin { "config", "file" } /\ fileData.clients # << >>

\* what the file holds for each setting (first client, first endpoint)
FileValues ==
    LET c == fileData.clients[1] IN
    [name |-> fileData.name,
     url |-> IF c.endpointUrls = << >> THEN "" ELSE c.endpointUrls[1],
     mesh |-> MeshTypeName(fileData.meshType),
     qps |-> Itoa(c.rps),
     concurrentRequests |-> Itoa(c.connections),
     duration |-> fileData.duration,
     loadGenerator |-> c.loadGenerator]

\* the service-mesh name a test-run request carries ("" when it has no mesh)
MeshOf(r) == IF "mesh" \in DOMAIN r.query THEN r.query.mesh ELSE ""

\* the duration a test-run request carries: magnitude followed by unit
DurationOf(r) == r.query.t \o r.query.dur

\* v is the flag's value when the flag is set, else the file's when it has one
FlagElseFile(flagValue, empty, fileValue, v) ==
    /\ flagValue # empty => v = flagValue
    /\ (flagValue = empty /\ fileValue # empty) => v = fileValue

\* C1: with a test-configuration file supplied, a setting whose flag is set
\* keeps the flag's value in the test-run request and in the profile-creation
\* request, whatever the number of matching profiles; a setting whose flag is
\* empty takes the file's value when the file is imported, and carries it in
\* the requests whenever the file's value is not empty.
C1_FlagsWinOverFile ==
    FileImported =>
      LET fv == FileValues IN
      /\ \A r \in Built("run") :
            /\ FlagElseFile(flags.name, "", fv.name, r.query.name)
            /\ FlagElseFile(flags.url, "", fv.url, r.query.url)
            /\ FlagElseFile(flags.mesh, "", fv.mesh, MeshOf(r))
            /\ FlagElseFile(flags.qps, << >>, fv.qps, r.query.qps)
            /\ FlagElseFile(flags.concurrentRequests, << >>, fv.concurrentRequests,
                            r.query.c)
            /\ FlagElseFile(flags.duration, << >>, fv.duration, DurationOf(r))
            /\ FlagElseFile(flags.loadGenerator, "", fv.loadGenerator,
                            r.query.loadGenerator)
      /\ \A r \in Built("create") :
            /\ FlagElseFile(flags.url, "", fv.url, r.body.endpoints[1])
            /\ FlagElseFile(flags.mesh, "", fv.mesh, r.body.service_mesh)
            /\ r.body.qps = Atoi(IF flags.qps # << >> THEN flags.qps ELSE fv.qps).val
            /\ r.body.concurrent_request =
                   Atoi(IF flags.concurrentRequests # << >> THEN flags.concurrentRequests
                        ELSE fv.concurrentRequests).val
            /\ FlagElseFile(flags.duration, << >>, fv.duration, r.body.duration)
            /\ FlagElseFile(flags.loadGenerator, "", fv.loadGenerator,
                            r.body.load_generators[1])
      /\ pc = "name" =>
            /\ testName = IF flags.name # "" THEN flags.name ELSE fv.name
            /\ testURL = IF flags.url # "" THEN flags.url ELSE fv.url
            /\ testMesh = IF flags.mesh # "" THEN flags.mesh ELSE fv.mesh
            /\ qps = IF flags.qps # << >> THEN flags.qps ELSE fv.qps
            /\ concurrentRequests = IF flags.concurrentRequests # << >>
                                    THEN flags.concurrentRequests
                                    ELSE fv.concurrentRequests
            /\ testDuration = IF flags.duration # << >> THEN flags.duration
                              ELSE fv.duration
            /\ loadGenerator = IF flags.loadGenerator # "" THEN flags.loadGenerator
                               ELSE fv.loadGenerator

\* C1 witness: several profiles match, a file is supplied whose values differ
\* from the flags given, and the test-run request was sent
C1_Witness ==
    /\ FileImported
    /\ fileData = FullFile
    /\ Len(profiles) > 1
    /\ flags.duration = << "1", "0", "s" >>
    /\ flags.qps = << "9" >>
    /\ flags.mesh = "istio"
    /\ flags.loadGenerator = ""
    /\ \E r \in Sent("run") :
          /\ r.query.t = << "1", "0" >>
          /\ r.query.qps = << "9" >>
          /\ r.query.loadGenerator = "fortio"

\* exactly one profile matched and no file was supplied
SingleMatchNoFile == Len(profiles) = 1 /\ filePath = ""

\* C2: with exactly one matching profile and no file, the load generator,
\* concurrent-requests, QPS, duration and service-mesh name of the final
\* specification and of the test-run request are the profile's stored values,
\* whatever the flags say.
C2_ProfileOverridesFlags ==
    SingleMatchNoFile =>
      LET p == profiles[1] IN
      /\ pc \in { "url", "build", "exec" } =>
            /\ loadGenerator = p.loadGenerators[1]
            /\ concurrentRequests = Itoa(p.concurrentRequest)
            /\ qps = Itoa(p.qps)
            /\ testDuration = p.duration
            /\ testMesh = p.serviceMesh
      /\ \A r \in Built("run") :
            /\ r.query.loadGenerator = p.loadGenerators[1]
            /\ r.query.c = Itoa(p.concurrentRequest)
            /\ r.query.qps = Itoa(p.qps)
            /\ DurationOf(r) = p.duration
            /\ MeshOf(r) = p.serviceMesh

\* C2 witness: the flags contradict the single matching profile and the
\* test-run request was sent
C2_Witness ==
    /\ SingleMatchNoFile
    /\ profiles[1] = ProfileA
    /\ flags.loadGenerator = "wrk2"
    /\ flags.qps = << "9" >>
    /\ flags.concurrentRequests = << "4" >>
    /\ flags.duration = << "1", "0", "s" >>
    /\ flags.mesh = "istio"
    /\ \E r \in Sent("run") : r.query.qps = << "1", "2" >>

\* the fetch returned no profile, silent mode is off and the user said no
Declined ==
    /\ Len(profiles) = 0
    /\ ~silent
    /\ prompts # << >>
    /\ prompts[1].prompt = "confirm"
    /\ ~prompts[1].answer

\* C3: when no profile matches, silent mode is off and the user declines the
\* creation, the invocation is over with the no-profile-found error, and
\* neither the profile-creation POST nor the test-run GET is built or sent.
C3_DeclineSendsNothing ==
    Declined =>
      /\ pc = "done"
      /\ err = "ErrNoProfileFound"
      /\ Built("create") = { }
      /\ Built("run") = { }
      /\ \A i \in 1..Len(calls) : calls[i].kind = "list"

\* C3 witness: the user declined after an empty profile list
C3_Witness == Declined /\ Len(calls) = 1 /\ replies[1].kind = "profiles"

\* what the user supplied for a setting: the flag, else the file's value
Supplied(flagValue, empty, fileValue) ==
    IF flagValue # empty THEN flagValue
    ELSE IF filePath # "" THEN fileValue
    ELSE empty

\* C4: the body of a profile-creation request carries a non-empty profile
\* name and a valid test URL and, for service mesh, QPS, concurrent requests,
\* duration and load generator, the supplied value when there is one and
\* otherwise "None", 0, 1, "30s" and "fortio".
C4_CreationDefaults ==
    \A r \in Built("create") :
      LET fv      == IF filePath # "" THEN FileValues ELSE flags
          mesh    == Supplied(flags.mesh, "", fv.mesh)
          q       == Supplied(flags.qps, << >>, fv.qps)
          c       == Supplied(flags.concurrentRequests, << >>, fv.concurrentRequests)
          dur     == Supplied(flags.duration, << >>, fv.duration)
          lg      == Supplied(flags.loadGenerator, "", fv.loadGenerator)
      IN  /\ Len(profiles) = 0
          /\ r.body.name # << >>
          /\ r.body.endpoints = << testURL >> /\ testURL \in ValidURLs
          /\ r.body.service_mesh = IF mesh # "" THEN mesh ELSE "None"
          /\ r.body.qps = IF q # << >> THEN Atoi(q).val ELSE 0
          /\ r.body.concurrent_request = IF c # << >> THEN Atoi(c).val ELSE 1
          /\ r.body.duration = IF dur # << >> THEN dur ELSE << "3", "0", "s" >>
          /\ r.body.load_generators = << IF lg # "" THEN lg ELSE "fortio" >>
          /\ r.body.request_body = "" /\ r.body.request_cookies = ""
          /\ r.body.request_headers = "" /\ r.body.content_type = ""

\* C4 witness: only a profile name and a test URL were given, and the creation
\* request with the five defaults was sent
C4_Witness ==
    /\ filePath = ""
    /\ flags = [name |-> "", url |-> "https://flag.example.com", mesh |-> "",
                qps |-> << >>, concurrentRequests |-> << >>, duration |-> << >>,
                loadGenerator |-> ""]
    /\ \E r \in Sent("create") :
          /\ r.body.service_mesh = "None"
          /\ r.body.qps = 0
          /\ r.body.concurrent_request = 1
          /\ r.body.duration = << "3", "0", "s" >>
          /\ r.body.load_generators = << "fortio" >>

\* the last request sent was the test run
RunAnswered == calls # << >> /\ calls[Len(calls)].kind = "run"

\* C5: a test-run response with status 200 and an HTML content type ends the
\* invocation like a non-200 response, with the failed-test-run error; the
\* invocation succeeds exactly when the response has status 200, is not HTML
\* and its body is read.
C5_HtmlIsFailure ==
    /\ RunAnswered =>
         LET r == replies[Len(replies)] IN
         /\ pc = "done"
         /\ r.kind = "error" => err = "ErrFailRequest"
         /\ r.kind = "response" =>
               /\ (r.status # 200 \/ ContentTypeIsHTML(r)) => err = "ErrFailTestRun"
               /\ err = "nil" <=>
                     (r.status = 200 /\ ~ContentTypeIsHTML(r) /\ r.readable)
    /\ err = "nil" => RunAnswered /\ replies[Len(replies)].kind = "response"

\* C5 witness: status 200 with an HTML content type was answered and the
\* invocation failed
C5_Witness ==
    /\ RunAnswered
    /\ replies[Len(replies)].kind = "response"
    /\ replies[Len(replies)].status = 200
    /\ ContentTypeIsHTML(replies[Len(replies)])
    /\ err = "ErrFailTestRun"

\* several profiles matched and the user was asked for an index
IndexAsked == Len(profiles) > 1 /\ prompts # << >> /\ prompts[1].prompt = "index"

\* C6: with several matching profiles and a valid index i selected, the
\* profile identifier (also in the test-run request) is that of profiles[i];
\* the test URL comes from profiles[i]'s first endpoint only if it was still
\* empty, and the other settings are those of profiles[i] only if no file was
\* given (else they stay as merged from flags and file). A failed selection
\* ends the invocation with the prompt's error and no test-run request.
C6_SelectedProfile ==
    IndexAsked =>
      LET ans == prompts[1].answer IN
      IF ~ans.ok
      THEN pc = "done" /\ err = "ErrPrompt" /\ Built("run") = { }
      ELSE LET p    == profiles[ans.index + 1]
               fv   == IF filePath # "" THEN FileValues ELSE flags
               url0 == Supplied(flags.url, "", fv.url)
           IN  /\ index = ans.index
               /\ profileID = p.id
               /\ \A r \in Built("run") :
                     /\ r.id = p.id
                     /\ r.query.url = IF url0 # "" THEN url0 ELSE p.endpoints[1]
                     /\ IF filePath = ""
                        THEN /\ r.query.loadGenerator = p.loadGenerators[1]
                             /\ r.query.c = Itoa(p.concurrentRequest)
                             /\ r.query.qps = Itoa(p.qps)
                             /\ DurationOf(r) = p.duration
                             /\ MeshOf(r) = p.serviceMesh
                        ELSE /\ r.query.loadGenerator =
                                   Supplied(flags.loadGenerator, "", fv.loadGenerator)
                             /\ r.query.c = Supplied(flags.concurrentRequests, << >>,
                                                     fv.concurrentRequests)
                             /\ r.query.qps = Supplied(flags.qps, << >>, fv.qps)
                             /\ DurationOf(r) = Supplied(flags.duration, << >>, fv.duration)
                             /\ MeshOf(r) = Supplied(flags.mesh, "", fv.mesh)

\* C6 witness: of two different profiles the second was selected, and the
\* test-run request went to it with its first endpoint as the URL
C6_Witness ==
    /\ IndexAsked
    /\ profiles = << ProfileB, ProfileA >>
    /\ prompts[1].answer.ok /\ prompts[1].answer.index = 1
    /\ flags.url = "" /\ filePath = ""
    /\ \E r \in Sent("run") : r.id = "id-a" /\ r.query.url = "https://profile.example.com"

\* C7: an invocation with only a valid test-configuration file (--file) and
\* no positional profile name does not stop for want of a profile name.
C7_FileAloneRuns ==
    (/\ Len(args) = 0
     /\ filePath # ""
     /\ fileData = FullFile
     /\ pc = "done") => err # "ErrNoProfileName"

\* the duration is a unit character preceded by an integer magnitude
WellFormedDuration(d) == Len(d) > 0 /\ Atoi(SubSeq(d, 1, Len(d) - 1)).ok

\* C8: at request building the duration is a unit character preceded by an
\* integer magnitude; a duration that cannot be decomposed makes the
\* invocation fail with a returned error, without a test-run request.
C8_DurationDecomposes ==
    /\ pc = "exec" => WellFormedDuration(testDuration)
    /\ \A r \in Built("run") :
          Len(r.query.dur) = 1 /\ Atoi(r.query.t).ok
    /\ err # "panic: index out of range [-1]"

\* the errors RunE can only return after its check of the test URL
PastURLCheck == { "ErrFailTestRun", "nil", "panic: index out of range [-1]" }

\* the profile list was fetched, so the resolution of the profile began
Resolving == replies # << >> /\ replies[1].kind = "profiles"

\* the ways the resolution can end before any check of the test URL
BeforeURLCheck == { "ErrPrompt", "ErrNoProfileFound", "ErrNoProfileName",
                    "panic: index out of range [0] with length 0" }

CallKinds == [i \in 1..Len(calls) |-> calls[i].kind]

\* the reply to a request reports a failure of that step
FailedReply(i) ==
    \/ replies[i].kind = "error"
    \/ /\ calls[i].kind = "create"
       /\ replies[i].status # 200 \/ ~replies[i].readable \/ ~replies[i].decodes

\* C10: an invocation sends at most one profile-list fetch, then at most one
\* profile-creation request, then at most one test-run request; a creation
\* request only after the fetch returned no profile; and after a failed step
\* nothing more is sent, so no test run follows a failed creation.
C10_CallOrder ==
    /\ CallKinds \in { << >>, << "list" >>, << "list", "create" >>, << "list", "run" >>,
                       << "list", "create", "run" >> }
    /\ Len(replies) = Len(calls)
    /\ \A i \in 1..Len(calls) :
          /\ calls[i].kind = "create" =>
                replies[1].kind = "profiles" /\ replies[1].count = 0
          /\ FailedReply(i) => i = Len(calls) /\ pc = "done" /\ err \notin { "nil", "running" }

\* C10 witness: fetch, creation and test run were sent in that order
C10_Witness == CallKinds = << "list", "create", "run" >> /\ err = "nil"

====
